---- MODULE Spec2Model ----
(***************************************************************************)
(* The set digests of hb-set-digest.hh: the bits-pattern filter            *)
(* hb_set_digest_bits_pattern_t<mask_t, shift>, the conjunction            *)
(* hb_set_digest_combiner_t<head_t, tail_t>, and hb_set_digest_t, the      *)
(* combination of the 32-bit filters at shifts 4, 0 and 9.                 *)
(*                                                                         *)
(* Representation of the machine integers:                                 *)
(*   hb_codepoint_t (uint32_t)  a pair <<hi, lo>> of 16-bit halves, the    *)
(*                              value being hi * 2^16 + lo;                *)
(*   mask_t (uint16/32/64_t)    the set of the positions of its 1 bits,    *)
(*                              a subset of 0 .. mask_bits-1;              *)
(*   __m256i                    a sequence of 8 lanes of 32 bits.          *)
(* A filter is a record: kind "bits" with mask_bytes (sizeof (mask_t)),    *)
(* shift, mask and indet, or kind "combiner" with head and tail.           *)
(*                                                                         *)
(* The member mask has no initializer, so a constructed object holds       *)
(* whatever its storage held.  The field indet is the set of the bit       *)
(* positions of the member that nothing has written yet: their values are  *)
(* arbitrary, each on its own and in each object on its own.  A position   *)
(* in the field mask is a 1 bit; a position outside mask and outside indet *)
(* is a 0 bit.  The member can hold the value m exactly when               *)
(* may_hold (f, m).  init () writes every bit.  The model makes the calls  *)
(* that read the member (add*, may_have) after init () only, where indet   *)
(* is empty and the field mask is the value of the member.                 *)
(***************************************************************************)
EXTENDS Integers, Sequences, FiniteSets, TLC

VARIABLES
  bits,     \* a hb_set_digest_bits_pattern_t<mask_t, shift> for each configuration of Configs
  digest,   \* a hb_set_digest_t
  F1,       \* a standalone filter of the type of digest's head
  F2,       \* a standalone filter of the type of digest's tail
  inited,   \* init () has been called on the objects
  n,        \* number of add* calls since the last init ()
  S,        \* the probe codepoints that belong to the logical set added since init ()
  op,       \* name of the last call
  args,     \* arguments of the last call
  ret,      \* what the last call returned on bits and on digest (<<>> for void)
  pre,      \* bits and digest as they were before the last call
  gs        \* the 8 codepoints a caller holds packed in a __m256i

vars == <<bits, digest, F1, F2, inited, n, S, op, args, ret, pre, gs>>

(***************************************************************************)
(* Bounds of the model.                                                    *)
(***************************************************************************)
MaxOps == 2      \* add* calls between two init () calls
MaxLen == 2      \* elements in a buffer handed to add_array / add_sorted_array

(***************************************************************************)
(* hb_codepoint_t: unsigned 32-bit arithmetic on <<hi, lo>>.               *)
(***************************************************************************)
Half == 2^16

\* the codepoint of value v, for 0 <= v < 2^31
CP(v) == << v \div Half, v % Half >>

\* the value of a codepoint below 2^31
cp_val(g) == g[1] * Half + g[2]

\* g >> s on uint32_t, 0 <= s < 32
cp_shr(g, s) ==
  IF s = 0 THEN g
  ELSE IF s < 16
    THEN << g[1] \div 2^s, (g[2] \div 2^s) + (g[1] % 2^s) * 2^(16 - s) >>
    ELSE << 0, g[1] \div 2^(s - 16) >>

\* x - y on uint32_t, wrapping modulo 2^32
cp_sub(x, y) ==
  LET lo     == x[2] - y[2]
      borrow == IF lo < 0 THEN 1 ELSE 0
      hi     == x[1] - y[1] - borrow
  IN  << hi % Half, lo % Half >>

\* x + k on uint32_t for a small k >= 0, wrapping modulo 2^32
cp_add(x, k) ==
  LET lo == x[2] + k
  IN  << (x[1] + lo \div Half) % Half, lo % Half >>

\* x >= k on uint32_t, for 0 <= k < 2^16
cp_ge(x, k) == x[1] > 0 \/ x[2] >= k

\* x <= y on uint32_t
cp_le(x, y) == x[1] < y[1] \/ (x[1] = y[1] /\ x[2] <= y[2])

\* x & k on uint32_t for k = 2^j - 1 < 2^16, as a natural number
cp_and(x, k) == x[2] % (k + 1)

(***************************************************************************)
(* mask_t: a mask is the set of the positions of its 1 bits; |, & and      *)
(* the test against 0 are union, intersection and non-emptiness.  For      *)
(* + - < a mask is taken as its number, a sequence of 16-bit limbs, least  *)
(* significant first, and the arithmetic is modulo 2^w.                    *)
(***************************************************************************)
LimbBits == 16

RECURSIVE bits_sum(_)
\* the sum of 2^i over the bit positions i of the set b
bits_sum(b) ==
  IF b = {} THEN 0
  ELSE LET i == CHOOSE x \in b : TRUE
       IN  2^i + bits_sum(b \ {i})

\* the limb of the mask m that starts at bit base
limb_of(m, base) ==
  bits_sum({ i - base : i \in { x \in m : base <= x /\ x < base + LimbBits } })

RECURSIVE limbs_from(_, _, _)
\* the limbs of the mask m from the one that starts at bit base
limbs_from(m, base, w) ==
  IF base >= w THEN <<>>
  ELSE <<limb_of(m, base)>> \o limbs_from(m, base + LimbBits, w)

\* the number a mask of width w holds
mask_num(m, w) == limbs_from(m, 0, w)

\* the mask of width w that holds a number
num_mask(x, w) == { i \in 0 .. w - 1 : (x[i \div LimbBits + 1] \div 2^(i % LimbBits)) % 2 = 1 }

RECURSIVE u_adc(_, _, _, _)
\* limbs j .. of x + y + carry; the carry out of the last limb is dropped
u_adc(x, y, carry, j) ==
  IF j > Len(x) THEN <<>>
  ELSE LET t == x[j] + y[j] + carry
       IN  <<t % Half>> \o u_adc(x, y, t \div Half, j + 1)

\* x + y modulo 2^w
u_add(x, y) == u_adc(x, y, 0, 1)

RECURSIVE u_sbb(_, _, _, _)
\* limbs j .. of x - y - borrow; the borrow out of the last limb is dropped
u_sbb(x, y, borrow, j) ==
  IF j > Len(x) THEN <<>>
  ELSE LET t == x[j] - y[j] - borrow
       IN  <<t % Half>> \o u_sbb(x, y, IF t < 0 THEN 1 ELSE 0, j + 1)

\* x - y modulo 2^w
u_sub(x, y) == u_sbb(x, y, 0, 1)

\* x < y, unsigned: the most significant limb in which they differ is smaller in x
u_lt(x, y) ==
  \E j \in 1 .. Len(x) : x[j] < y[j] /\ \A k \in j + 1 .. Len(x) : x[k] = y[k]

\* a bool converted to a number of width w
u_bool(p, w) == mask_num(IF p THEN {0} ELSE {}, w)

(***************************************************************************)
(* __m256i: 8 lanes of 32 bits, each lane the set of the positions of its  *)
(* 1 bits, and the AVX2 operations the filter uses.                        *)
(***************************************************************************)
Lanes == 8
LaneBits == 32

\* the 32 bits of a codepoint
cp_bits(g) ==
  {i \in 0 .. 15 : (g[2] \div 2^i) % 2 = 1} \cup
  {i \in 16 .. 31 : (g[1] \div 2^(i - 16)) % 2 = 1}

\* 8 codepoints packed into a __m256i
pack(q) == << cp_bits(q[1]), cp_bits(q[2]), cp_bits(q[3]), cp_bits(q[4]),
              cp_bits(q[5]), cp_bits(q[6]), cp_bits(q[7]), cp_bits(q[8]) >>

\* a small natural number as an int, 0 <= k < 2^16
int_bits(k) == {i \in 0 .. 15 : (k \div 2^i) % 2 = 1}

\* a mask_t converted to the int parameter of _mm256_set1_epi32: the low 32 bits
mask_to_int(m) == m \cap (0 .. LaneBits - 1)

mm256_set1_epi32(x) == << x, x, x, x, x, x, x, x >>

mm256_and_si256(u, v) ==
  << u[1] \cap v[1], u[2] \cap v[2], u[3] \cap v[3], u[4] \cap v[4],
     u[5] \cap v[5], u[6] \cap v[6], u[7] \cap v[7], u[8] \cap v[8] >>

\* one lane shifted right by count, zeros coming in
srl_lane(x, count) ==
  IF count >= LaneBits THEN {} ELSE { b - count : b \in { c \in x : c >= count } }

\* logical right shift of every lane by the immediate count
mm256_srli_epi32(v, count) ==
  << srl_lane(v[1], count), srl_lane(v[2], count), srl_lane(v[3], count),
     srl_lane(v[4], count), srl_lane(v[5], count), srl_lane(v[6], count),
     srl_lane(v[7], count), srl_lane(v[8], count) >>

\* one lane x shifted left by the unsigned number the lane c holds; a count
\* above 31 gives 0
sll_lane(x, c) ==
  IF \E b \in c : b >= 5 THEN {}
  ELSE LET k == (IF 0 \in c THEN 1 ELSE 0) + (IF 1 \in c THEN 2 ELSE 0)
              + (IF 2 \in c THEN 4 ELSE 0) + (IF 3 \in c THEN 8 ELSE 0)
              + (IF 4 \in c THEN 16 ELSE 0)
       IN  { b + k : b \in { d \in x : d + k < LaneBits } }

\* left shift of every lane of v by the count in the same lane of c
mm256_sllv_epi32(v, c) ==
  << sll_lane(v[1], c[1]), sll_lane(v[2], c[2]), sll_lane(v[3], c[3]),
     sll_lane(v[4], c[4]), sll_lane(v[5], c[5]), sll_lane(v[6], c[6]),
     sll_lane(v[7], c[7]), sll_lane(v[8], c[8]) >>

\* 1 when the AND of the two vectors is all zeros, else 0
mm256_testz_si256(u, v) == IF \A i \in 1 .. Lanes : u[i] \cap v[i] = {} THEN 1 ELSE 0

(***************************************************************************)
(* hb_set_digest_bits_pattern_t<mask_t, shift>                             *)
(***************************************************************************)
codepoint_bits == 32     \* sizeof (hb_codepoint_t) * 8

mask_bits(f) == f.mask_bytes * 8

num_bits(mask_bytes) ==
  0 + (IF mask_bytes >= 1 THEN 3 ELSE 0)
    + (IF mask_bytes >= 2 THEN 1 ELSE 0)
    + (IF mask_bytes >= 4 THEN 1 ELSE 0)
    + (IF mask_bytes >= 8 THEN 1 ELSE 0)
    + (IF mask_bytes >= 16 THEN 1 ELSE 0)
    + 0

\* the two static_asserts of the template
static_assert_ok(mask_bytes, shift) ==
  /\ shift < codepoint_bits
  /\ shift + num_bits(mask_bytes) <= codepoint_bits

\* a default-constructed filter object: no bit of its mask is written
bits_pattern(mask_bytes, shift) ==
  [kind |-> "bits", mask_bytes |-> mask_bytes, shift |-> shift,
   mask |-> {}, indet |-> 0 .. mask_bytes * 8 - 1]

\* the member mask of f can hold the value whose 1 bits are m
may_hold(f, m) ==
  /\ m \subseteq 0 .. mask_bits(f) - 1
  /\ f.mask \subseteq m
  /\ m \subseteq f.mask \cup f.indet

\* ((mask_t) 1) << ((g >> shift) & (mask_bits - 1))
mask_for(f, g) == { cp_and(cp_shr(g, f.shift), mask_bits(f) - 1) }

\* init () that leaves the mask as it is
bits_init_keep(f) == f

bits_init(f) == [f EXCEPT !.mask = {}, !.indet = {}]

bits_add(f, g) == [f EXCEPT !.mask = @ \cup mask_for(f, g)]

\* add_range that sets the buckets of the two ends only
bits_add_range_ends(f, a, b) ==
  [self |-> [f EXCEPT !.mask = @ \cup mask_for(f, a) \cup mask_for(f, b)], ret |-> TRUE]

\* add_range without the borrow: mask |= mb + (mb - ma)
bits_add_range_no_borrow(f, a, b) ==
  IF cp_ge(cp_sub(cp_shr(b, f.shift), cp_shr(a, f.shift)), mask_bits(f) - 1)
  THEN [self |-> [f EXCEPT !.mask = 0 .. mask_bits(f) - 1], ret |-> TRUE]
  ELSE LET w  == mask_bits(f)
           ma == mask_num(mask_for(f, a), w)
           mb == mask_num(mask_for(f, b), w)
       IN  [self |-> [f EXCEPT !.mask = @ \cup num_mask(u_add(mb, u_sub(mb, ma)), w)],
            ret  |-> TRUE]

\* add_range that assigns the run: mask = mb + (mb - ma) - (mb < ma)
bits_add_range_assign(f, a, b) ==
  IF cp_ge(cp_sub(cp_shr(b, f.shift), cp_shr(a, f.shift)), mask_bits(f) - 1)
  THEN [self |-> [f EXCEPT !.mask = 0 .. mask_bits(f) - 1], ret |-> TRUE]
  ELSE LET w  == mask_bits(f)
           ma == mask_num(mask_for(f, a), w)
           mb == mask_num(mask_for(f, b), w)
       IN  [self |-> [f EXCEPT !.mask =
                        num_mask(u_sub(u_add(mb, u_sub(mb, ma)),
                                       u_bool(u_lt(mb, ma), w)), w)],
            ret  |-> TRUE]

\* add_range that does nothing when a > b
bits_add_range_skip_inverted(f, a, b) ==
  IF ~ cp_le(a, b) THEN [self |-> f, ret |-> TRUE]
  ELSE IF cp_ge(cp_sub(cp_shr(b, f.shift), cp_shr(a, f.shift)), mask_bits(f) - 1)
  THEN [self |-> [f EXCEPT !.mask = 0 .. mask_bits(f) - 1], ret |-> TRUE]
  ELSE LET w  == mask_bits(f)
           ma == mask_num(mask_for(f, a), w)
           mb == mask_num(mask_for(f, b), w)
       IN  [self |-> [f EXCEPT !.mask =
                        @ \cup num_mask(u_sub(u_add(mb, u_sub(mb, ma)),
                                              u_bool(u_lt(mb, ma), w)), w)],
            ret  |-> TRUE]

bits_add_range(f, a, b) ==
  IF cp_ge(cp_sub(cp_shr(b, f.shift), cp_shr(a, f.shift)), mask_bits(f) - 1)
  THEN [self |-> [f EXCEPT !.mask = 0 .. mask_bits(f) - 1], ret |-> TRUE]
  ELSE LET w  == mask_bits(f)
           ma == mask_num(mask_for(f, a), w)
           mb == mask_num(mask_for(f, b), w)
       IN  [self |-> [f EXCEPT !.mask =
                        @ \cup num_mask(u_sub(u_add(mb, u_sub(mb, ma)),
                                              u_bool(u_lt(mb, ma), w)), w)],
            ret  |-> TRUE]

RECURSIVE bits_add_loop(_, _, _, _, _, _)
\* the for loop of add_array and add_sorted_array: array is the position in
\* buf the pointer is at, stride is counted in elements
bits_add_loop(f, buf, array, i, count, stride) ==
  IF i < count
  THEN bits_add_loop(bits_add(f, buf[array]), buf, array + stride, i + 1, count, stride)
  ELSE f

bits_add_array(f, buf, count, stride) == bits_add_loop(f, buf, 1, 0, count, stride)

RECURSIVE bits_add_ascending(_, _, _, _, _, _)
\* a loop that stops at the first element smaller than the one before it
bits_add_ascending(f, buf, array, i, count, stride) ==
  IF i < count /\ (i = 0 \/ cp_le(buf[array - stride], buf[array]))
  THEN bits_add_ascending(bits_add(f, buf[array]), buf, array + stride, i + 1, count, stride)
  ELSE f

\* add_sorted_array that relies on the elements being in ascending order
bits_add_sorted_array_ascending(f, buf, count, stride) ==
  [self |-> bits_add_ascending(f, buf, 1, 0, count, stride), ret |-> TRUE]

bits_add_sorted_array(f, buf, count, stride) ==
  [self |-> bits_add_loop(f, buf, 1, 0, count, stride), ret |-> TRUE]

bits_may_have(f, g) == f.mask \cap mask_for(f, g) # {}

m256_is_not_zero(v) == mm256_testz_si256(v, v) = 0

\* shifted that never shifts
shifted_none(f, v) == v

shifted(f, v) == IF f.shift = 0 THEN v ELSE mm256_srli_epi32(v, f.shift)

mask_for_v(f, g) ==
  LET a == mm256_and_si256(shifted(f, g), mm256_set1_epi32(int_bits(mask_bits(f) - 1)))
  IN  mm256_sllv_epi32(mm256_set1_epi32(int_bits(1)), a)

bits_may_have_v(f, g) ==
  m256_is_not_zero(mm256_and_si256(mm256_set1_epi32(mask_to_int(f.mask)), mask_for_v(f, g)))

(***************************************************************************)
(* hb_set_digest_combiner_t<head_t, tail_t>.  init, add, ... dispatch on   *)
(* the type of the filter, as the templates do.                            *)
(***************************************************************************)
RECURSIVE init(_), add(_, _), add_range(_, _, _), add_array(_, _, _, _),
          add_sorted_array(_, _, _, _), may_have(_, _), may_have_v(_, _)

combiner(head, tail) == [kind |-> "combiner", head |-> head, tail |-> tail]

combiner_init(f) == [f EXCEPT !.head = init(f.head), !.tail = init(f.tail)]

\* add that forwards to the head only
combiner_add_head_only(f, g) == [f EXCEPT !.head = add(f.head, g)]

combiner_add(f, g) == [f EXCEPT !.head = add(f.head, g), !.tail = add(f.tail, g)]

combiner_add_range(f, a, b) ==
  LET h == add_range(f.head, a, b)
      t == add_range(f.tail, a, b)
  IN  [self |-> [f EXCEPT !.head = h.self, !.tail = t.self], ret |-> TRUE]

combiner_add_array(f, buf, count, stride) ==
  [f EXCEPT !.head = add_array(f.head, buf, count, stride),
            !.tail = add_array(f.tail, buf, count, stride)]

combiner_add_sorted_array(f, buf, count, stride) ==
  LET h == add_sorted_array(f.head, buf, count, stride)
      t == add_sorted_array(f.tail, buf, count, stride)
  IN  [self |-> [f EXCEPT !.head = h.self, !.tail = t.self], ret |-> TRUE]

combiner_may_have(f, g) == may_have(f.head, g) /\ may_have(f.tail, g)

combiner_may_have_v(f, g) == may_have_v(f.head, g) /\ may_have_v(f.tail, g)

init(f) == IF f.kind = "bits" THEN bits_init(f) ELSE combiner_init(f)

add(f, g) == IF f.kind = "bits" THEN bits_add(f, g) ELSE combiner_add(f, g)

add_range(f, a, b) ==
  IF f.kind = "bits" THEN bits_add_range(f, a, b) ELSE combiner_add_range(f, a, b)

add_array(f, buf, count, stride) ==
  IF f.kind = "bits" THEN bits_add_array(f, buf, count, stride)
  ELSE combiner_add_array(f, buf, count, stride)

add_sorted_array(f, buf, count, stride) ==
  IF f.kind = "bits" THEN bits_add_sorted_array(f, buf, count, stride)
  ELSE combiner_add_sorted_array(f, buf, count, stride)

may_have(f, g) == IF f.kind = "bits" THEN bits_may_have(f, g) ELSE combiner_may_have(f, g)

may_have_v(f, g) ==
  IF f.kind = "bits" THEN bits_may_have_v(f, g) ELSE combiner_may_have_v(f, g)

\* a default-constructed hb_set_digest_t
hb_set_digest_t ==
  combiner(bits_pattern(4, 4),
           combiner(bits_pattern(4, 0), bits_pattern(4, 9)))

(***************************************************************************)
(* The inputs of the calls.                                                *)
(***************************************************************************)
Top == << Half - 1, Half - 1 >>              \* 0xFFFFFFFF
Bit31 == << Half \div 2, 0 >>                \* 0x80000000
Below31 == << Half \div 2 - 1, Half - 1 >>   \* 0x7FFFFFFF

\* <<sizeof (mask_t), shift>> of the bits-pattern filters under test; the
\* static_asserts reject <<2, 29>>, <<4, 28>> and <<8, 27>>
Configs ==
  { c \in { <<2, 0>>, <<2, 28>>, <<2, 29>>, <<4, 0>>, <<4, 4>>, <<4, 27>>,
            <<4, 28>>, <<8, 0>>, <<8, 26>>, <<8, 27>> } :
      static_assert_ok(c[1], c[2]) }

AddInputs == { CP(5), CP(37), CP(1000), Top }

\* a <= b: inside one run of buckets, spanning all buckets, wrapping around
\* the top of the mask; and a > b
Ranges ==
  { <<CP(10), CP(14)>>, <<CP(0), CP(40)>>, <<CP(30), CP(33)>>, <<CP(62), CP(65)>>,
    <<CP(500), CP(520)>>, <<CP(0), CP(70)>>, <<CP(16383), CP(16384)>>,
    <<Below31, Bit31>>,
    <<CP(14), CP(10)>>, <<CP(5), CP(4)>>, <<Top, CP(0)>> }

ArrElems == { CP(37), CP(5) }

\* the stride of a buffer, in elements
Strides == { 1, 2 }

RECURSIVE SeqsUpTo(_, _)
\* the sequences over E of length at most k
SeqsUpTo(E, k) ==
  IF k = 0 THEN { <<>> }
  ELSE LET shorter == SeqsUpTo(E, k - 1)
       IN  shorter \cup { Append(q, e) : q \in {r \in shorter : Len(r) = k - 1}, e \in E }

Buffers == SeqsUpTo(ArrElems, MaxLen)

\* the number of elements a buffer holds at a stride
CountOf(buf, stride) == IF Len(buf) = 0 THEN 0 ELSE (Len(buf) - 1) \div stride + 1

\* the elements of the buffer the loop reads
ElemsOf(buf, count, stride) == { buf[1 + i * stride] : i \in 0 .. count - 1 }

\* the codepoints may_have is asked about
Probes ==
  AddInputs \cup ArrElems \cup { r[1] : r \in Ranges } \cup { r[2] : r \in Ranges } \cup
  { CP(4), CP(8), CP(9), CP(12), CP(15), CP(32), CP(41), CP(64), CP(510), CP(992),
    CP(17384) }

VecInputs == { CP(4), CP(5), CP(37), CP(8), CP(992), CP(1000), Top }

\* x in the first k lanes, y in the others
Batch(x, y, k) == [i \in 1 .. Lanes |-> IF i <= k THEN x ELSE y]

Batches == { Batch(x, y, k) : x \in VecInputs, y \in VecInputs, k \in {1, 4, Lanes - 1} }

InRange(c, a, b) == cp_le(a, c) /\ cp_le(c, b)

Void == <<>>

(***************************************************************************)
(* The state after construction: no mask is initialized, every bit of      *)
(* every object is arbitrary.                                              *)
(***************************************************************************)
Constructed ==
  /\ bits = [c \in Configs |-> bits_pattern(c[1], c[2])]
  /\ digest = hb_set_digest_t
  /\ F1 = bits_pattern(4, 4)
  /\ F2 = combiner(bits_pattern(4, 0), bits_pattern(4, 9))
  /\ inited = FALSE
  /\ n = 0
  /\ S = {}
  /\ op = "construct"
  /\ args = Void
  /\ ret = [bits |-> Void, digest |-> Void]
  /\ pre = [bits |-> bits, digest |-> digest]

Init == Constructed /\ gs = Batch(CP(0), CP(0), 1)

InitQuery == Constructed /\ gs \in Batches

(***************************************************************************)
(* The calls.  Each is made on every object alike.  init () comes before   *)
(* any add* or may_have call.                                              *)
(***************************************************************************)
DoInit ==
  /\ bits' = [c \in Configs |-> init(bits[c])]
  /\ digest' = init(digest)
  /\ F1' = init(F1)
  /\ F2' = init(F2)
  /\ inited' = TRUE
  /\ n' = 0
  /\ S' = {}
  /\ op' = "init"
  /\ args' = Void
  /\ ret' = [bits |-> Void, digest |-> Void]
  /\ pre' = [bits |-> bits, digest |-> digest]
  /\ UNCHANGED gs

DoAdd(g) ==
  /\ inited
  /\ n < MaxOps
  /\ bits' = [c \in Configs |-> add(bits[c], g)]
  /\ digest' = add(digest, g)
  /\ F1' = add(F1, g)
  /\ F2' = add(F2, g)
  /\ n' = n + 1
  /\ S' = S \cup ({g} \cap Probes)
  /\ op' = "add"
  /\ args' = [g |-> g]
  /\ ret' = [bits |-> Void, digest |-> Void]
  /\ pre' = [bits |-> bits, digest |-> digest]
  /\ UNCHANGED <<inited, gs>>

DoAddRange(a, b) ==
  /\ inited
  /\ n < MaxOps
  /\ LET rb == [c \in Configs |-> add_range(bits[c], a, b)]
         rd == add_range(digest, a, b)
     IN  /\ bits' = [c \in Configs |-> rb[c].self]
         /\ digest' = rd.self
         /\ ret' = [bits |-> [c \in Configs |-> rb[c].ret], digest |-> <<rd.ret>>]
  /\ F1' = add_range(F1, a, b).self
  /\ F2' = add_range(F2, a, b).self
  /\ n' = n + 1
  /\ S' = S \cup { c \in Probes : InRange(c, a, b) }
  /\ op' = "add_range"
  /\ args' = [a |-> a, b |-> b]
  /\ pre' = [bits |-> bits, digest |-> digest]
  /\ UNCHANGED <<inited, gs>>

DoAddArray(buf, count, stride) ==
  /\ inited
  /\ n < MaxOps
  /\ bits' = [c \in Configs |-> add_array(bits[c], buf, count, stride)]
  /\ digest' = add_array(digest, buf, count, stride)
  /\ F1' = add_array(F1, buf, count, stride)
  /\ F2' = add_array(F2, buf, count, stride)
  /\ n' = n + 1
  /\ S' = S \cup (ElemsOf(buf, count, stride) \cap Probes)
  /\ op' = "add_array"
  /\ args' = [buf |-> buf, count |-> count, stride |-> stride]
  /\ ret' = [bits |-> Void, digest |-> Void]
  /\ pre' = [bits |-> bits, digest |-> digest]
  /\ UNCHANGED <<inited, gs>>

DoAddSortedArray(buf, count, stride) ==
  /\ inited
  /\ n < MaxOps
  /\ LET rb == [c \in Configs |-> add_sorted_array(bits[c], buf, count, stride)]
         rd == add_sorted_array(digest, buf, count, stride)
     IN  /\ bits' = [c \in Configs |-> rb[c].self]
         /\ digest' = rd.self
         /\ ret' = [bits |-> [c \in Configs |-> rb[c].ret], digest |-> <<rd.ret>>]
  /\ F1' = add_sorted_array(F1, buf, count, stride).self
  /\ F2' = add_sorted_array(F2, buf, count, stride).self
  /\ n' = n + 1
  /\ S' = S \cup (ElemsOf(buf, count, stride) \cap Probes)
  /\ op' = "add_sorted_array"
  /\ args' = [buf |-> buf, count |-> count, stride |-> stride]
  /\ pre' = [bits |-> bits, digest |-> digest]
  /\ UNCHANGED <<inited, gs>>

\* may_have (const __m256i &g) on the batch the caller holds
DoMayHaveV ==
  /\ inited
  /\ op' = "may_have_v"
  /\ args' = [gs |-> gs]
  /\ LET g == pack(gs)
     IN  ret' = [bits |-> [c \in Configs |-> may_have_v(bits[c], g)],
                 digest |-> <<may_have_v(digest, g)>>]
  /\ pre' = [bits |-> bits, digest |-> digest]
  /\ UNCHANGED <<bits, digest, F1, F2, inited, n, S, gs>>

\* populating the filters
Next ==
  \/ DoInit
  \/ \E g \in AddInputs : DoAdd(g)
  \/ \E r \in Ranges : DoAddRange(r[1], r[2])
  \/ \E buf \in Buffers, stride \in Strides : DoAddArray(buf, CountOf(buf, stride), stride)
  \/ \E buf \in Buffers, stride \in Strides : DoAddSortedArray(buf, CountOf(buf, stride), stride)

Spec == Init /\ [][Next]_vars

\* populating with add and querying eight codepoints at a time
NextQuery ==
  \/ DoInit
  \/ \E g \in AddInputs : DoAdd(g)
  \/ DoMayHaveV

SpecQuery == InitQuery /\ [][NextQuery]_vars

(***************************************************************************)
(* Properties.                                                             *)
(***************************************************************************)
AddOps == { "add", "add_range", "add_array", "add_sorted_array" }

AllOnes(f) == 0 .. mask_bits(f) - 1

\* the bucket index of g under a filter
Bucket(f, g) == cp_and(cp_shr(g, f.shift), mask_bits(f) - 1)

\* every bits-pattern filter there is, before and after the last call
LeafPairs ==
  { <<pre.bits[c], bits[c]>> : c \in Configs } \cup
  { <<pre.digest.head, digest.head>>,
    <<pre.digest.tail.head, digest.tail.head>>,
    <<pre.digest.tail.tail, digest.tail.tail>> }

RECURSIVE AddEach(_, _, _, _)
\* f after add (a + k) for every k in lo .. hi, in ascending order; the
\* lower half is worked out before the upper half is entered
AddEach(f, a, lo, hi) ==
  IF lo = hi THEN add(f, cp_add(a, lo))
  ELSE LET mid  == (lo + hi) \div 2
           left == AddEach(f, a, lo, mid)
       IN  IF left.kind = f.kind THEN AddEach(left, a, mid + 1, hi) ELSE left

RECURSIVE AddAll(_, _)
\* f after add (e) once for every element e of the set E
AddAll(f, E) ==
  IF E = {} THEN f
  ELSE LET e == CHOOSE x \in E : TRUE
       IN  AddAll(add(f, e), E \ {e})

\* the buckets from x to y, around the top of the mask when y < x
Run(x, y, w) == IF x <= y THEN x .. y ELSE (x .. w - 1) \cup (0 .. y)

\* C1: soundness.  After init (), every codepoint that was added, by add,
\* inside a range of add_range or as an element of an array, is reported by
\* may_have of every bits-pattern filter and of the composite digest.
C1_Soundness ==
  inited => \A c \in S : /\ \A k \in Configs : may_have(bits[k], c)
                         /\ may_have(digest, c)

\* a range was added, a codepoint inside it is in the set, and the digest
\* still answers no for a codepoint outside
C1_Witness ==
  /\ inited
  /\ op = "add_range"
  /\ args.a = CP(10) /\ args.b = CP(14)
  /\ CP(12) \in S
  /\ ~ may_have(digest, CP(9))

\* C2: range/elementwise equivalence.  For a <= b, the mask after
\* add_range (a, b) is the mask after add (c) for every c in [a, b], from the
\* same starting mask, in every bits-pattern filter.
C2_RangeElementwise ==
  (op = "add_range" /\ cp_le(args.a, args.b)) =>
    \A p \in LeafPairs :
      p[2] = AddEach(p[1], args.a, 0, cp_val(cp_sub(args.b, args.a)))

\* a range whose buckets wrap around the top of a mask that is not filled
C2_Witness ==
  /\ op = "add_range"
  /\ cp_le(args.a, args.b)
  /\ \E c \in Configs : /\ Bucket(bits[c], args.b) < Bucket(bits[c], args.a)
                        /\ bits[c].mask # AllOnes(bits[c])
                        /\ bits[c].mask # pre.bits[c].mask

\* C3: monotonicity.  Between two init () calls no add* call clears a bit
\* of a mask, and a codepoint may_have reports stays reported, in every
\* bits-pattern filter and in the composite digest.
C3_Monotonic ==
  op \in AddOps =>
    /\ \A p \in LeafPairs : p[1].mask \subseteq p[2].mask
    /\ \A g \in Probes :
         /\ \A c \in Configs : may_have(pre.bits[c], g) => may_have(bits[c], g)
         /\ may_have(pre.digest, g) => may_have(digest, g)

\* a second add* call on masks that already hold bits, which sets more
C3_Witness ==
  /\ op \in AddOps
  /\ n = 2
  /\ \A c \in Configs : pre.bits[c].mask # {}
  /\ \E g \in Probes : may_have(pre.digest, g)
  /\ \E g \in Probes : may_have(digest, g) /\ ~ may_have(pre.digest, g)

\* C4: conjunction law.  The digest and the standalone filters F1 and F2,
\* given the same calls, agree at every point: the head of the digest is F1,
\* its tail is F2, and may_have of the digest is the AND of theirs.
C4_Conjunction ==
  inited =>
    /\ digest.head = F1
    /\ digest.tail = F2
    /\ \A g \in Probes : may_have(digest, g) = (may_have(F1, g) /\ may_have(F2, g))

\* the digest reports one codepoint, and F1 reports another that F2 does not
C4_Witness ==
  /\ inited
  /\ n > 0
  /\ \E g \in Probes : may_have(digest, g)
  /\ \E g \in Probes : may_have(F1, g) /\ ~ may_have(F2, g)

\* C5: vector/scalar equivalence on one filter.  With a 32-bit mask, the
\* vectorized may_have on a batch is true exactly when the scalar may_have
\* is true of one of the 8 codepoints of the batch.
C5_VectorScalar ==
  op = "may_have_v" =>
    \A c \in { k \in Configs : k[1] = 4 } :
      ret.bits[c] = (\E i \in 1 .. Lanes : may_have(bits[c], gs[i]))

\* a batch on the shift-4 filter whose last lane alone is reported
C5_Witness ==
  /\ op = "may_have_v"
  /\ ret.bits[<<4, 4>>]
  /\ may_have(bits[<<4, 4>>], gs[Lanes])
  /\ \A i \in 1 .. Lanes - 1 : ~ may_have(bits[<<4, 4>>], gs[i])

\* C6: vector/scalar equivalence on the composite.  The vectorized may_have
\* of the digest on a batch is true exactly when the scalar may_have of the
\* digest is true of one of the 8 codepoints of the batch.
C6_CompositeVectorScalar ==
  op = "may_have_v" =>
    ret.digest[1] = (\E i \in 1 .. Lanes : may_have(digest, gs[i]))

\* C7: composite precision after one add.  After init () and one add (g),
\* no bit of the digest's masks is left arbitrary and may_have (d) of the
\* digest is true exactly when d has the bucket index of g at each of the
\* shifts 4, 0 and 9.
C7_SingleAdd ==
  (inited /\ n = 1 /\ op = "add") =>
    /\ \A p \in LeafPairs : p[2].indet = {}
    /\ \A d \in Probes :
         may_have(digest, d) =
           (\A s \in {4, 0, 9} : cp_and(cp_shr(d, s), 31) = cp_and(cp_shr(args.g, s), 31))

\* after add (1000): 1000 and 17384 are reported, 992 is not
C7_Witness ==
  /\ inited /\ n = 1 /\ op = "add"
  /\ args.g = CP(1000)
  /\ may_have(digest, CP(1000))
  /\ may_have(digest, CP(17384))
  /\ ~ may_have(digest, CP(992))

\* C8: array ingestion depends on the set of elements only.  add_array and
\* add_sorted_array leave every bits-pattern filter as add called once for
\* each distinct element read leaves it, whatever their order and repetition.
C8_ArrayAsSet ==
  op \in { "add_array", "add_sorted_array" } =>
    \A p \in LeafPairs :
      p[2] = AddAll(p[1], ElemsOf(args.buf, args.count, args.stride))

\* add_sorted_array on a buffer in descending order
C8_Witness ==
  /\ op = "add_sorted_array"
  /\ args.buf = << CP(37), CP(5) >>
  /\ args.count = 2
  /\ bits[<<8, 0>>].mask # pre.bits[<<8, 0>>].mask

\* C9: the vectorized query has no false negatives at any mask width.  If a
\* codepoint added since init () is in one of the 8 lanes of the batch, the
\* vectorized may_have of a 16-bit, 32-bit or 64-bit filter returns true.
C9_VectorSound ==
  op = "may_have_v" =>
    \A c \in Configs :
      (\E i \in 1 .. Lanes : gs[i] \in S) => ret.bits[c]

\* C10: an inverted range is harmless.  add_range (a, b) with a > b returns
\* true, clears no bit, leaves the buckets of a and b set, and makes the mask
\* all ones or the old mask plus the run of buckets from that of a to that
\* of b, around the top of the mask when the bucket of b is the smaller.
C10_InvertedRange ==
  (op = "add_range" /\ ~ cp_le(args.a, args.b)) =>
    /\ \A c \in Configs : ret.bits[c] = TRUE
    /\ ret.digest = <<TRUE>>
    /\ may_have(digest, args.a) /\ may_have(digest, args.b)
    /\ \A p \in LeafPairs :
         /\ p[1].mask \subseteq p[2].mask
         /\ may_have(p[2], args.a) /\ may_have(p[2], args.b)
         /\ \/ p[2].mask = AllOnes(p[2])
            \/ p[2].mask = p[1].mask \cup Run(Bucket(p[2], args.a), Bucket(p[2], args.b),
                                              mask_bits(p[2]))

\* add_range (0xFFFFFFFF, 0) on the 32-bit filter at shift 0 sets buckets 31 and 0 only
C10_Witness ==
  /\ op = "add_range"
  /\ args.a = Top /\ args.b = CP(0)
  /\ pre.bits[<<4, 0>>].mask = {}
  /\ bits[<<4, 0>>].mask = {0, 31}

====
